---- MODULE Spec2Model ----
(***************************************************************************)
(* A model of RDFtoCSVConverter (src/src/rdf_to_csv/RDFtoCSV.py): one run  *)
(* of the converter over a quad store and an RML mapping.                  *)
(*                                                                         *)
(* Strings are sequences of tokens.  A token is a short piece of text that *)
(* the code never looks into: "h:" is a URI scheme, "/" "#" "{" "}" " "    *)
(* "_" are the single characters the code splits and matches on, "%20" is  *)
(* one percent-encoded character, "Id" "n" "x" are words.  The empty       *)
(* string and Python's None are both the empty sequence where the code     *)
(* only tests truthiness.                                                  *)
(***************************************************************************)
EXTENDS Naturals, Sequences, FiniteSets, TLC

VARIABLES
    pc,                 \* the method run() calls next, or "done" / "failed"
    error,              \* <<>> or <<[at |-> method, what |-> exception]>>
    rdf_exists,         \* os.path.exists(self.rdf_file)
    mapping_exists,     \* os.path.exists(self.mapping_file)
    graph,              \* self.graph: the quads of the Dataset
    mapping_graph,      \* self.mapping_graph: subject maps and predicate-object maps
    columns,            \* self.columns
    subject_template,   \* self.subject_template (<<>> is None)
    subject_term_type,  \* self.subject_term_type (<<>> before it is set)
    datatype_map,       \* extract_data's datatype_map
    datatype_name,      \* extract_data's local datatype_name: <<>> unbound, <<v>> bound
    records,            \* extract_data's records dict: subject_id -> record
    record_keys,        \* the insertion order of the records dict
    pending,            \* quads self.graph.quads() has not yielded yet
    first_seen,         \* history: the subjects of the quads yielded so far, each once,
                        \* in the order in which the scan first met them
    data,               \* self.data (<<>> is the initial empty list)
    data_keys,          \* the insertion order of self.data
    iris,               \* self.iris (<<>> before it is set)
    output,             \* the CSV file: <<>> or <<table>>
    probe               \* template round trip: a template, values, the URI, the record

vars == <<pc, error, rdf_exists, mapping_exists, graph, mapping_graph, columns,
          subject_template, subject_term_type, datatype_map, datatype_name,
          records, record_keys, pending, first_seen, data, data_keys, iris, output, probe>>

-----------------------------------------------------------------------------
(* Bounds *)

MaxQuads == 2

MaxValueLen == 2

-----------------------------------------------------------------------------
(* Strings *)

Range(s) == {s[i] : i \in DOMAIN s}

\* c in s, for a one-token c
Contains(s, c) == \E i \in DOMAIN s : s[i] = c

LastIndexOf(s, c) == CHOOSE i \in DOMAIN s : s[i] = c /\ \A j \in DOMAIN s : j > i => s[j] # c

FirstIndexOf(s, c) == CHOOSE i \in DOMAIN s : s[i] = c /\ \A j \in DOMAIN s : j < i => s[j] # c

\* s.split(c)[-1]
AfterLast(s, c) == IF Contains(s, c) THEN SubSeq(s, LastIndexOf(s, c) + 1, Len(s)) ELSE s

\* s.split(c)
RECURSIVE Split(_, _)
Split(s, c) ==
    IF ~Contains(s, c) THEN <<s>>
    ELSE <<SubSeq(s, 1, FirstIndexOf(s, c) - 1)>>
         \o Split(SubSeq(s, FirstIndexOf(s, c) + 1, Len(s)), c)

\* s.replace(old, new) for one-token old and new
ReplaceToken(s, old, new) == [i \in DOMAIN s |-> IF s[i] = old THEN new ELSE s[i]]

\* s.replace(old, "") for a one-token old
RECURSIVE RemoveToken(_, _)
RemoveToken(s, old) ==
    IF s = <<>> THEN <<>>
    ELSE IF Head(s) = old THEN RemoveToken(Tail(s), old)
    ELSE <<Head(s)>> \o RemoveToken(Tail(s), old)

\* s.startswith(prefix) for a one-token prefix
StartsWith(s, prefix) == Len(s) > 0 /\ s[1] = prefix

LowerToken(c) ==
    CASE c = "N" -> "n"
      [] c = "Id" -> "id"
      [] c = "A" -> "a"
      [] OTHER -> c

\* s.lower()
Lower(s) == [i \in DOMAIN s |-> LowerToken(s[i])]

\* not s.strip()
IsBlank(s) == \A i \in DOMAIN s : s[i] = " "

UnquoteToken(c) ==
    CASE c = "%20" -> " "
      [] c = "%2F" -> "/"
      [] c = "%3B" -> ";"
      [] OTHER -> c

\* urllib.parse.unquote
unquote(s) == [i \in DOMAIN s |-> UnquoteToken(s[i])]

\* urlparse(u).path: what follows the scheme, up to a "?" or "#"
UrlPath(u) ==
    LET rest == IF StartsWith(u, "h:") THEN Tail(u) ELSE u
        stops == {i \in DOMAIN rest : rest[i] \in {"?", "#"}}
    IN  IF stops = {} THEN rest
        ELSE SubSeq(rest, 1, (CHOOSE i \in stops : \A j \in stops : i <= j) - 1)

\* x in list
In(x, list) == \E i \in DOMAIN list : list[i] = x

\* dict[k] = v
Put(d, k, v) == [x \in DOMAIN d \cup {k} |-> IF x = k THEN v ELSE d[x]]

-----------------------------------------------------------------------------
(* Templates *)

\* re.findall(r'\{(.*?)\}', template): the texts between each "{" and the
\* nearest "}" after it, left to right
RECURSIVE FindPlaceholders(_)
FindPlaceholders(t) ==
    IF ~Contains(t, "{") THEN <<>>
    ELSE LET rest == SubSeq(t, FirstIndexOf(t, "{") + 1, Len(t))
         IN  IF ~Contains(rest, "}") THEN <<>>
             ELSE <<SubSeq(rest, 1, FirstIndexOf(rest, "}") - 1)>>
                  \o FindPlaceholders(SubSeq(rest, FirstIndexOf(rest, "}") + 1, Len(rest)))

\* the capture group r'([^/;]+)' as one pattern element
Group == "([^/;]+)"

\* populate_template_fields' regex_pattern: every "{name}" replaced by the
\* capture group, everything else escaped, so matched literally
RECURSIVE RegexPattern(_)
RegexPattern(t) ==
    IF ~Contains(t, "{") THEN t
    ELSE LET i == FirstIndexOf(t, "{")
             rest == SubSeq(t, i + 1, Len(t))
         IN  IF ~Contains(rest, "}") THEN t
             ELSE SubSeq(t, 1, i - 1) \o <<Group>>
                  \o RegexPattern(SubSeq(rest, FirstIndexOf(rest, "}") + 1, Len(rest)))

\* the longest prefix of s the character class [^/;] matches
RECURSIVE ClassRun(_)
ClassRun(s) ==
    IF s = <<>> \/ Head(s) \in {"/", ";"} THEN 0 ELSE 1 + ClassRun(Tail(s))

NoMatch == [ok |-> FALSE, groups |-> <<>>]

\* re.match(pattern, s): anchored at the start only; each group is greedy
\* and gives characters back until the rest of the pattern matches
RECURSIVE ReMatch(_, _)
ReMatch(pattern, s) ==
    IF pattern = <<>> THEN [ok |-> TRUE, groups |-> <<>>]
    ELSE IF Head(pattern) # Group
    THEN IF s # <<>> /\ Head(s) = Head(pattern)
         THEN ReMatch(Tail(pattern), Tail(s))
         ELSE NoMatch
    ELSE LET fits == {k \in 1..ClassRun(s) :
                        ReMatch(Tail(pattern), SubSeq(s, k + 1, Len(s))).ok}
         IN  IF fits = {} THEN NoMatch
             ELSE LET k == CHOOSE x \in fits : \A y \in fits : y <= x
                      r == ReMatch(Tail(pattern), SubSeq(s, k + 1, Len(s)))
                  IN  [ok |-> TRUE, groups |-> <<SubSeq(s, 1, k)>> \o r.groups]

RECURSIVE ExtendColumns(_, _)
ExtendColumns(cols, names) ==
    IF names = <<>> THEN cols
    ELSE LET normalized_column == ReplaceToken(Head(names), " ", "_")
         IN  ExtendColumns(
                 IF ~In(normalized_column, [i \in DOMAIN cols |-> Lower(cols[i])])
                 THEN Append(cols, normalized_column) ELSE cols,
                 Tail(names))

\* extract_columns_from_template: self.columns after the call
extract_columns_from_template(cols, template) ==
    ExtendColumns(cols, FindPlaceholders(template))

-----------------------------------------------------------------------------
(* RDF terms and quads.  The graph context of a quad is dropped: the scan  *)
(* binds it to _ and never reads it.                                       *)

URIRef(v) == [kind |-> "URIRef", value |-> v, datatype |-> <<>>, language |-> ""]

BNode(v) == [kind |-> "BNode", value |-> v, datatype |-> <<>>, language |-> ""]

Literal(v, dt, lang) == [kind |-> "Literal", value |-> v, datatype |-> dt, language |-> lang]

Quad(s, p, o) == [s |-> s, p |-> p, o |-> o]

\* every list that enumerates the set S once
RECURSIVE Orders(_)
Orders(S) ==
    IF S = {} THEN {<<>>}
    ELSE UNION {{<<x>> \o rest : rest \in Orders(S \ {x})} : x \in S}

-----------------------------------------------------------------------------
(* extract_data, one quad *)

\* subject_id
SubjectId(s) == IF s.kind = "BNode" THEN <<"_:blank_">> \o s.value ELSE s.value

\* predicate_short
PredicateShort(predicate) ==
    IF Contains(predicate, "#") THEN AfterLast(predicate, "#") ELSE AfterLast(predicate, "/")

resolve_blank_node(node) == <<"blank_node_">> \o node.value

\* object_value
ObjectValue(o) ==
    CASE o.kind = "BNode" -> resolve_blank_node(o)
      [] o.kind = "URIRef" ->
            unquote(IF UrlPath(o.value) # <<>> THEN AfterLast(UrlPath(o.value), "/") ELSE o.value)
      [] OTHER -> o.value

\* datatype_name as a literal object binds it
LiteralDatatypeName(o) ==
    LET datatype == IF o.datatype # <<>> THEN o.datatype ELSE <<"string">>
    IN  IF Contains(datatype, "#") THEN AfterLast(datatype, "#") ELSE datatype

\* the quads self.graph.quads((blank_node_id, None, None, None)) yields
BlankNodeQuads(subject_id) ==
    {q \in graph : q.s = BNode(RemoveToken(subject_id, "_:blank_"))}

\* the captured values stored as matched, not decoded
RECURSIVE AssignGroupsUndecoded(_, _, _)
AssignGroupsUndecoded(record, placeholders, values) ==
    IF placeholders = <<>> \/ values = <<>> THEN record
    ELSE AssignGroupsUndecoded(
             Put(record, ReplaceToken(Head(placeholders), " ", "_"), Head(values)),
             Tail(placeholders), Tail(values))

\* for placeholder, value in zip(placeholders, extracted_values)
RECURSIVE AssignGroups(_, _, _)
AssignGroups(record, placeholders, values) ==
    IF placeholders = <<>> \/ values = <<>> THEN record
    ELSE AssignGroups(
             Put(record, ReplaceToken(Head(placeholders), " ", "_"), unquote(Head(values))),
             Tail(placeholders), Tail(values))

RECURSIVE AssignFromQuad(_, _, _)
AssignFromQuad(record, placeholders, q) ==
    IF placeholders = <<>> THEN record
    ELSE AssignFromQuad(
             IF Lower(Head(placeholders)) = Lower(AfterLast(q.p.value, "/"))
             THEN Put(record, Head(placeholders), q.o.value) ELSE record,
             Tail(placeholders), q)

RECURSIVE AssignFromBlankNode(_, _, _)
AssignFromBlankNode(record, placeholders, bq) ==
    IF bq = <<>> THEN record
    ELSE AssignFromBlankNode(AssignFromQuad(record, placeholders, Head(bq)),
                             placeholders, Tail(bq))

\* populate_template_fields(subject_id, record); bq is the order in which the
\* store yields the blank node's quads
populate_template_fields(subject_id, record, bq) ==
    IF subject_template = <<>> THEN record
    ELSE LET placeholders == FindPlaceholders(subject_template)
         IN  IF placeholders = <<>> THEN record
             ELSE IF StartsWith(subject_id, "_:blank_")
             THEN AssignFromBlankNode(record, placeholders, bq)
             ELSE LET match == ReMatch(RegexPattern(subject_template), subject_id)
                  IN  IF match.ok
                      THEN AssignGroups(record, placeholders, match.groups)
                      ELSE record

\* list(self.mapping_graph.query(object_template_query)) as a set
ObjectTemplateResults(predicate) ==
    {r.template : r \in {x \in mapping_graph.poms : x.predicate = predicate /\ x.template # <<>>}}

\* if name not in self.columns: self.columns.append(name)
EnsureColumn(cols, name) == IF ~In(name, cols) THEN Append(cols, name) ELSE cols

\* Add predicate column if missing
EnsurePredicateColumn(cols, predicate_short) ==
    IF ~In(Lower(predicate_short), [i \in DOMAIN cols |-> Lower(cols[i])])
    THEN Append(cols, predicate_short) ELSE cols

RECURSIVE EnsureColumns(_, _)
EnsureColumns(cols, names) ==
    IF names = <<>> THEN cols
    ELSE EnsureColumns(EnsureColumn(cols, Head(names)), Tail(names))

\* placeholders beyond the last part set to "" instead of left alone
RECURSIVE AssignSplitBlanking(_, _, _)
AssignSplitBlanking(record, placeholders, split_values) ==
    IF placeholders = <<>> THEN record
    ELSE AssignSplitBlanking(
             Put(record, Head(placeholders),
                 IF split_values = <<>> THEN <<>> ELSE Head(split_values)),
             Tail(placeholders),
             IF split_values = <<>> THEN <<>> ELSE Tail(split_values))

RECURSIVE AssignSplit(_, _, _)
AssignSplit(record, placeholders, split_values) ==
    IF placeholders = <<>> \/ split_values = <<>> THEN record
    ELSE AssignSplit(Put(record, Head(placeholders), Head(split_values)),
                     Tail(placeholders), Tail(split_values))

\* the choices the stores make while one quad is processed: the order of the
\* blank-node subject's quads and the order of the object-template results
QuadChoices(q) ==
    {[bq |-> b, otr |-> t] :
        b \in IF q.s.kind = "BNode" THEN Orders(BlankNodeQuads(SubjectId(q.s))) ELSE {<<>>},
        t \in Orders(ObjectTemplateResults(q.p.value))}

\* the body of the scan loop for quad q, from scan state st
ProcessQuad(st, q, ch) ==
    LET subject_id == SubjectId(q.s)
        predicate == q.p.value
        predicate_short == PredicateShort(predicate)
        object_value == ObjectValue(q.o)
        dn == IF q.o.kind = "Literal" THEN <<LiteralDatatypeName(q.o)>> ELSE st.datatype_name
        \* Initialize the record if not present
        is_new == subject_id \notin DOMAIN st.records
        keys1 == IF is_new THEN Append(st.record_keys, subject_id) ELSE st.record_keys
        rec0 == IF is_new THEN [c \in Range(st.columns) |-> <<>>] ELSE st.records[subject_id]
        \* datatype column
        typed == predicate_short \in DOMAIN st.datatype_map
        datatype_column == predicate_short \o <<"_datatype">>
        cols1 == IF typed THEN EnsureColumn(st.columns, datatype_column) ELSE st.columns
        rec1 == IF typed
                THEN Put(rec0, datatype_column,
                         IF dn # <<>> THEN dn[1] ELSE st.datatype_map[predicate_short])
                ELSE rec0
        \* language-specific columns
        tagged == q.o.kind = "Literal" /\ q.o.language # ""
        column_name == predicate_short \o <<"_", q.o.language>>
        cols2 == IF tagged THEN EnsureColumn(cols1, column_name)
                 ELSE EnsurePredicateColumn(cols1, predicate_short)
        rec2 == IF tagged THEN Put(rec1, column_name, object_value)
                ELSE Put(rec1, predicate_short, object_value)
        rec3 == populate_template_fields(subject_id, rec2, ch.bq)
        \* object template
        templated == ch.otr # <<>>
        placeholders == IF templated THEN FindPlaceholders(ch.otr[1]) ELSE <<>>
        split_values == Split(object_value, " ")
        cols3 == IF templated THEN EnsureColumns(cols2, placeholders) ELSE cols2
        rec4 == IF templated THEN AssignSplit(rec3, placeholders, split_values)
                ELSE Put(rec3, predicate_short, object_value)
    IN  [columns |-> cols3,
         records |-> Put(st.records, subject_id, rec4),
         record_keys |-> keys1,
         datatype_map |-> st.datatype_map,
         datatype_name |-> dn]

\* the final loop of extract_data left out
BackfillNothing(st) == st

\* the final loop of extract_data: every column absent from a record is set to ""
Backfill(st) ==
    [st EXCEPT !.records =
        [s \in DOMAIN st.records |->
            [c \in DOMAIN st.records[s] \cup Range(st.columns) |->
                IF c \in DOMAIN st.records[s] THEN st.records[s][c] ELSE <<>>]]]

-----------------------------------------------------------------------------
(* The files the run may find *)

T_Id == <<"h:", "/", "{", "Id", "}">>

T_IdId == <<"h:", "/", "{", "Id", "}", "/", "{", "Id", "}">>

T_Object == <<"{", "f", "}", " ", "{", "N", "}">>

SubjectMap(t, tt) == [template |-> t, term_type |-> tt]

SubjectMapChoices ==
    { {},
      {SubjectMap(T_Id, <<>>)},
      {SubjectMap(T_Id, <<"rml:", "Literal">>)},
      {SubjectMap(<<" ">>, <<>>)},
      {SubjectMap(T_IdId, <<"rml:", "IRI">>)},
      {SubjectMap(T_Id, <<>>), SubjectMap(T_IdId, <<"rml:", "IRI">>)} }

P_n == <<"h:", "#", "n">>

P_Id == <<"h:", "/", "Id">>

Pom(p, dt, t) == [predicate |-> p, datatype_template |-> dt, template |-> t]

PomChoices ==
    { {},
      {Pom(P_n, <<"xs:", "#", "integer">>, <<>>), Pom(P_Id, <<>>, T_Object)},
      {Pom(P_n, <<"xs:", "#", "integer">>, T_Object)} }

Mappings == {[subject_maps |-> sm, poms |-> pm] : sm \in SubjectMapChoices, pm \in PomChoices}

Subjects == {URIRef(<<"h:", "/", "1">>), BNode(<<"b">>)}

Predicates == {URIRef(P_n), URIRef(P_Id)}

Objects ==
    { Literal(<<"x">>, <<>>, ""),
      Literal(<<"y">>, <<>>, "e"),
      Literal(<<"x", " ", " ", "y">>, <<"xs:", "#", "int">>, ""),
      URIRef(<<"h:", "/", "a", "%20", "b">>) }

QuadUniverse == {Quad(s, p, o) : s \in Subjects, p \in Predicates, o \in Objects}

RECURSIVE SubsetsUpTo(_, _)
SubsetsUpTo(S, n) ==
    IF n = 0 THEN {{}}
    ELSE LET smaller == SubsetsUpTo(S, n - 1)
         IN  smaller \cup {g \cup {q} : g \in smaller, q \in S}

Graphs == SubsetsUpTo(QuadUniverse, MaxQuads)

-----------------------------------------------------------------------------
(* The converter *)

Idle == [stage |-> "idle", values |-> <<>>, uri |-> <<>>, record |-> <<>>]

\* __init__
InitConverter ==
    /\ pc = "check_files_exist"
    /\ error = <<>>
    /\ graph = {}
    /\ mapping_graph = [subject_maps |-> {}, poms |-> {}]
    /\ columns = <<>>
    /\ subject_template = <<>>
    /\ subject_term_type = <<>>
    /\ datatype_map = <<>>
    /\ datatype_name = <<>>
    /\ records = <<>>
    /\ record_keys = <<>>
    /\ pending = {}
    /\ first_seen = <<>>
    /\ data = <<>>
    /\ data_keys = <<>>
    /\ iris = <<>>
    /\ output = <<>>
    /\ probe = Idle

Init ==
    /\ rdf_exists \in BOOLEAN
    /\ mapping_exists \in BOOLEAN
    /\ InitConverter

Raise(at, what) ==
    /\ pc' = "failed"
    /\ error' = <<[at |-> at, what |-> what]>>

\* a check that looks at the RDF file only
CheckRdfFileOnly == rdf_exists

\* the condition under which check_files_exist returns without raising
FilesFound == rdf_exists /\ mapping_exists

check_files_exist ==
    /\ pc = "check_files_exist"
    /\ IF FilesFound
       THEN pc' = "load_rdf_file" /\ error' = error
       ELSE Raise("check_files_exist", "FileNotFoundError")
    /\ UNCHANGED <<rdf_exists, mapping_exists, graph, mapping_graph, columns,
                   subject_template, subject_term_type, datatype_map, datatype_name,
                   records, record_keys, pending, first_seen, data, data_keys, iris,
                   output, probe>>

\* load_rdf_file: either document may fail to parse; a file that does not
\* exist cannot be opened
load_rdf_file ==
    /\ pc = "load_rdf_file"
    /\ \/ /\ Raise("load_rdf_file", "ValueError")
          /\ UNCHANGED <<graph, mapping_graph>>
       \/ /\ rdf_exists
          /\ \E g \in Graphs :
                /\ graph' = g
                /\ \/ /\ Raise("load_rdf_file", "ValueError")
                      /\ UNCHANGED mapping_graph
                   \/ /\ mapping_exists
                      /\ \E m \in Mappings : mapping_graph' = m
                      /\ pc' = "extract_subject_template"
                      /\ error' = error
    /\ UNCHANGED <<rdf_exists, mapping_exists, columns,
                   subject_template, subject_term_type, datatype_map, datatype_name,
                   records, record_keys, pending, first_seen, data, data_keys, iris,
                   output, probe>>

RdfType == <<"rdf:", "#", "type">>

FoafPerson == <<"foaf:", "/", "Person">>

\* the subjects the iri_query selects
IriResults == {q.s.value : q \in {x \in graph : x.p.value = RdfType /\ x.o.value = FoafPerson}}

\* the term-type test left out
IsLiteralTermTypeNever(term_type) == FALSE

\* "Literal" in self.subject_term_type
IsLiteralTermType(term_type) == Contains(term_type, "Literal")

\* extract_subject_template; results is the list the subject-map query gives
extract_subject_template ==
    /\ pc = "extract_subject_template"
    /\ \E results \in Orders(mapping_graph.subject_maps) :
          IF results = <<>>
          THEN /\ Raise("extract_subject_template", "ValueError")
               /\ UNCHANGED <<subject_template, subject_term_type, columns, iris>>
          ELSE /\ subject_template' = results[1].template
               /\ subject_term_type' =
                     IF results[1].term_type # <<>> THEN results[1].term_type
                     ELSE <<"DefaultTermType">>
               /\ IF IsBlank(subject_template')
                  THEN /\ Raise("extract_subject_template", "ValueError")
                       /\ UNCHANGED <<columns, iris>>
                  ELSE IF IsLiteralTermType(subject_term_type')
                  THEN /\ Raise("extract_subject_template", "LiteralSubjectError")
                       /\ UNCHANGED <<columns, iris>>
                  ELSE /\ iris' = IF Contains(subject_term_type', "IRI")
                                  THEN CHOOSE l \in Orders(IriResults) : TRUE
                                  ELSE iris
                       /\ columns' = extract_columns_from_template(columns, subject_template')
                       /\ pc' = "extract_data"
                       /\ error' = error
    /\ UNCHANGED <<rdf_exists, mapping_exists, graph, mapping_graph,
                   datatype_map, datatype_name,
                   records, record_keys, pending, first_seen, data, data_keys,
                   output, probe>>

\* the loop over the datatype query's rows: datatype_map and the local
\* datatype_name it leaves bound
RECURSIVE DatatypeRows(_, _)
DatatypeRows(rows, acc) ==
    IF rows = <<>> THEN acc
    ELSE LET datatype_template == Head(rows).datatype_template
             name == IF Contains(datatype_template, "#")
                     THEN AfterLast(datatype_template, "#") ELSE datatype_template
         IN  DatatypeRows(Tail(rows),
                 IF datatype_template # <<>>
                 THEN [datatype_map |-> Put(acc.datatype_map,
                                            PredicateShort(Head(rows).predicate), name),
                       datatype_name |-> <<name>>]
                 ELSE acc)

\* extract_data up to the scan
extract_data_begin ==
    /\ pc = "extract_data"
    /\ \E rows \in Orders(mapping_graph.poms) :
          LET built == DatatypeRows(rows, [datatype_map |-> <<>>, datatype_name |-> <<>>])
          IN  /\ datatype_map' = built.datatype_map
              /\ datatype_name' = built.datatype_name
    /\ records' = <<>>
    /\ record_keys' = <<>>
    /\ pending' = graph
    /\ first_seen' = <<>>
    /\ pc' = "scan"
    /\ UNCHANGED <<error, rdf_exists, mapping_exists, graph, mapping_graph, columns,
                   subject_template, subject_term_type, data, data_keys, iris,
                   output, probe>>

ScanState ==
    [columns |-> columns, records |-> records, record_keys |-> record_keys,
     datatype_map |-> datatype_map, datatype_name |-> datatype_name]

\* extract_data, one turn of the scan loop: the store yields any quad it has
\* not yielded yet
extract_data_quad ==
    /\ pc = "scan"
    /\ \E q \in pending : \E ch \in QuadChoices(q) :
          LET st == ProcessQuad(ScanState, q, ch)
          IN  /\ columns' = st.columns
              /\ records' = st.records
              /\ record_keys' = st.record_keys
              /\ datatype_name' = st.datatype_name
              /\ pending' = pending \ {q}
              /\ first_seen' =
                    LET id == IF q.s.kind = "BNode" THEN <<"_:blank_">> \o q.s.value
                              ELSE q.s.value
                    IN  IF In(id, first_seen) THEN first_seen ELSE Append(first_seen, id)
    /\ UNCHANGED <<pc, error, rdf_exists, mapping_exists, graph, mapping_graph,
                   subject_template, subject_term_type, datatype_map, data, data_keys,
                   iris, output, probe>>

\* extract_data after the scan
extract_data_end ==
    /\ pc = "scan"
    /\ pending = {}
    /\ LET st == Backfill(ScanState)
       IN  /\ records' = st.records
           /\ data' = st.records
           /\ data_keys' = record_keys
    /\ pc' = "write_to_csv"
    /\ UNCHANGED <<error, rdf_exists, mapping_exists, graph, mapping_graph, columns,
                   subject_template, subject_term_type, datatype_map, datatype_name,
                   record_keys, pending, first_seen, iris, output, probe>>

\* rows in reverse insertion order
TableReversed(cols, d, keys) ==
    [header |-> cols,
     index |-> [i \in DOMAIN keys |-> keys[Len(keys) + 1 - i]],
     rows |-> [i \in DOMAIN keys |->
                 [j \in DOMAIN cols |->
                     IF cols[j] \in DOMAIN d[keys[Len(keys) + 1 - i]]
                     THEN d[keys[Len(keys) + 1 - i]][cols[j]] ELSE <<>>]]]

\* the DataFrame write_to_csv hands to to_csv: one row per key of self.data in
\* insertion order, the columns of self.columns in order
Table(cols, d, keys) ==
    [header |-> cols,
     index |-> keys,
     rows |-> [i \in DOMAIN keys |->
                 [j \in DOMAIN cols |->
                     IF cols[j] \in DOMAIN d[keys[i]] THEN d[keys[i]][cols[j]] ELSE <<>>]]]

write_to_csv ==
    /\ pc = "write_to_csv"
    /\ output' = <<Table(columns, data, data_keys)>>
    /\ pc' = "done"
    /\ UNCHANGED <<error, rdf_exists, mapping_exists, graph, mapping_graph, columns,
                   subject_template, subject_term_type, datatype_map, datatype_name,
                   records, record_keys, pending, first_seen, data, data_keys, iris, probe>>

\* run
Next ==
    \/ check_files_exist
    \/ load_rdf_file
    \/ extract_subject_template
    \/ extract_data_begin
    \/ extract_data_quad
    \/ extract_data_end
    \/ write_to_csv

Spec == Init /\ [][Next]_vars

-----------------------------------------------------------------------------
(* Template round trip: a subject URI is generated from a subject template *)
(* and values, as the RML processor that produced the graph did, and       *)
(* populate_template_fields is applied to it                               *)

T_Under == <<"h:", "/", "{", "a", "}", "_", "{", "b", "}">>

T_Slash == <<"h:", "/", "{", "a", "}", "/", "{", "b", "}">>

T_Adjacent == <<"h:", "/", "{", "a", "}", "{", "b", "}">>

T_Spaced == <<"h:", "/", "{", "a", " ", "b", "}", "/", "{", "a", "_", "b", "}">>

ProbeTemplates == {T_Id, T_Under, T_Slash, T_Adjacent, T_Spaced}

ValueAlphabet == {"x", "_", "/", " "}

RECURSIVE StringsUpTo(_)
StringsUpTo(n) ==
    IF n = 0 THEN {<<>>}
    ELSE StringsUpTo(n - 1)
         \cup {Append(v, c) : v \in {w \in StringsUpTo(n - 1) : Len(w) = n - 1}, c \in ValueAlphabet}

Values == StringsUpTo(MaxValueLen) \ {<<>>}

QuoteToken(c) ==
    CASE c = " " -> "%20"
      [] c = "/" -> "%2F"
      [] c = ";" -> "%3B"
      [] OTHER -> c

\* the percent-encoding of a value inside a generated IRI
Quote(v) == [i \in DOMAIN v |-> QuoteToken(v[i])]

\* the template with every {name} replaced by the encoded value of name
RECURSIVE BindTemplate(_, _)
BindTemplate(t, V) ==
    IF ~Contains(t, "{") THEN t
    ELSE LET i == FirstIndexOf(t, "{")
             rest == SubSeq(t, i + 1, Len(t))
             j == FirstIndexOf(rest, "}")
         IN  SubSeq(t, 1, i - 1) \o Quote(V[SubSeq(rest, 1, j - 1)])
             \o BindTemplate(SubSeq(rest, j + 1, Len(rest)), V)

InitRoundTrip ==
    /\ rdf_exists = TRUE
    /\ mapping_exists = TRUE
    /\ InitConverter

generate_subject ==
    /\ probe.stage = "idle"
    /\ \E t \in ProbeTemplates : \E V \in [Range(FindPlaceholders(t)) -> Values] :
          /\ subject_template' = t
          /\ probe' = [stage |-> "generated", values |-> V, uri |-> BindTemplate(t, V),
                       record |-> <<>>]
    /\ UNCHANGED <<pc, error, rdf_exists, mapping_exists, graph, mapping_graph, columns,
                   subject_term_type, datatype_map, datatype_name, records, record_keys,
                   pending, first_seen, data, data_keys, iris, output>>

populate_subject ==
    /\ probe.stage = "generated"
    /\ probe' = [probe EXCEPT !.stage = "populated",
                              !.record = populate_template_fields(probe.uri, <<>>, <<>>)]
    /\ UNCHANGED <<pc, error, rdf_exists, mapping_exists, graph, mapping_graph, columns,
                   subject_template, subject_term_type, datatype_map, datatype_name,
                   records, record_keys, pending, first_seen, data, data_keys, iris, output>>

NextRoundTrip == generate_subject \/ populate_subject

SpecRoundTrip == InitRoundTrip /\ [][NextRoundTrip]_vars

-----------------------------------------------------------------------------
(* Scans replayed: what a scan that yields the quads in a given order ends *)
(* with, for every choice the stores make on the way                       *)

RECURSIVE ScanFrom(_, _)
ScanFrom(sts, quads) ==
    IF quads = <<>> THEN sts
    ELSE ScanFrom(UNION {{ProcessQuad(st, Head(quads), ch) : ch \in QuadChoices(Head(quads))}
                            : st \in sts},
                  Tail(quads))

\* the scan states a fresh converter may start the scan of this graph and
\* mapping from, one per order of the datatype query's rows
ScanStarts ==
    {[columns |-> extract_columns_from_template(<<>>, subject_template),
      records |-> <<>>, record_keys |-> <<>>,
      datatype_map |-> built.datatype_map, datatype_name |-> built.datatype_name] :
        built \in {DatatypeRows(rows, [datatype_map |-> <<>>, datatype_name |-> <<>>]) :
                     rows \in Orders(mapping_graph.poms)}}

Extracted == pc \in {"write_to_csv", "done"}

\* one fixed enumeration order of a set of quads, the reference every
\* extraction is compared with
RECURSIVE ReferenceOrder(_)
ReferenceOrder(S) ==
    IF S = {} THEN <<>>
    ELSE LET q == CHOOSE x \in S : TRUE IN <<q>> \o ReferenceOrder(S \ {q})


-----------------------------------------------------------------------------
(* Claims *)

\* C1: after extract_data finishes, every record has an entry (possibly the
\* empty string) for every column of the final Column Set, also for columns
\* first discovered by quads processed after the record was created.
C1_RecordsCoverColumns ==
    Extracted => \A s \in DOMAIN data : Range(columns) \subseteq DOMAIN data[s]

\* C1 witness: extraction has finished, and the record created first holds ""
\* under a column that none of its subject's quads adds: the column was
\* discovered by a quad of the subject met later.
C1_Witness ==
    /\ Extracted
    /\ Len(data_keys) = 2
    /\ \E i \in DOMAIN columns :
          /\ \A q \in {x \in graph : SubjectId(x.s) = data_keys[1]} :
                \A st \in ScanFrom(ScanStarts, <<q>>) : ~In(columns[i], st.columns)
          /\ data[data_keys[1]][columns[i]] = <<>>

\* C2: in every state during and after extraction no two entries of the
\* Column Set are equal when compared case-insensitively.
C2_ColumnsCaseInsensitiveUnique ==
    \A i, j \in DOMAIN columns : Lower(columns[i]) = Lower(columns[j]) => i = j

\* C3: after extract_data finishes, the keys of every record are a subset of
\* the final Column Set.
C3_RecordKeysAreColumns ==
    Extracted => \A s \in DOMAIN data : DOMAIN data[s] \subseteq Range(columns)

HasKey(recs, s, k) == s \in DOMAIN recs /\ k \in DOMAIN recs[s]

\* C4: processing a quad whose literal object carries a language tag L sets
\* the record's <predicateShort>_<L> column to the literal's value and leaves
\* the record's plain <predicateShort> entry as it was.
C4_TaggedLeavesPlain ==
    [][(pc = "scan" /\ pending' # pending
          /\ (CHOOSE x \in pending : x \notin pending').o.language # "")
       => LET q == CHOOSE x \in pending : x \notin pending'
              s == SubjectId(q.s)
              plain == PredicateShort(q.p.value)
          IN  /\ records'[s][plain \o <<"_", q.o.language>>] = q.o.value
              /\ HasKey(records', s, plain) = HasKey(records, s, plain)
              /\ HasKey(records, s, plain) => records'[s][plain] = records[s][plain]]_vars

TemplatesOf(maps) == {m.template : m \in maps}

\* C5: subject-template discovery succeeds only when exactly one subject
\* template exists in the mapping; with none, a blank one or more than one
\* distinct template, extract_data is never reached.
C5_ExactlyOneSubjectTemplate ==
    pc \in {"extract_data", "scan", "write_to_csv", "done"}
        => /\ Cardinality(TemplatesOf(mapping_graph.subject_maps)) = 1
           /\ \A t \in TemplatesOf(mapping_graph.subject_maps) : ~IsBlank(t)

\* C6: if the subject map's resolved term type contains "Literal", run fails
\* in extract_subject_template before any record is created, before any
\* column is added and before write_to_csv is called.
C6_LiteralSubjectRejected ==
    Contains(subject_term_type, "Literal")
        => /\ pc = "failed"
           /\ error[1].at = "extract_subject_template"
           /\ columns = <<>>
           /\ records = <<>> /\ data = <<>>
           /\ output = <<>>

\* C6 witness: the run has failed on a subject map whose term type is a literal type.
C6_Witness ==
    /\ pc = "failed"
    /\ Contains(subject_term_type, "Literal")
    /\ error[1].what = "LiteralSubjectError"

\* C7: if either path does not exist, run fails in check_files_exist before
\* load_rdf_file parses either document, and write_to_csv is never reached.
C7_MissingFileRejected ==
    (~rdf_exists \/ ~mapping_exists)
        => /\ pc \in {"check_files_exist", "failed"}
           /\ pc = "failed" => error[1] = [at |-> "check_files_exist", what |-> "FileNotFoundError"]
           /\ graph = {} /\ mapping_graph = [subject_maps |-> {}, poms |-> {}]
           /\ output = <<>>

\* C7 witness: the run has failed with only the mapping file missing.
C7_Witness ==
    /\ pc = "failed"
    /\ rdf_exists /\ ~mapping_exists

\* the subject identifiers that occur in the quad stream
SubjectIdsOf(quads) ==
    {IF q.s.kind = "BNode" THEN <<"_:blank_">> \o q.s.value ELSE q.s.value : q \in quads}

ColumnOf(name) == ReplaceToken(name, " ", "_")

Recovered ==
    \A name \in DOMAIN probe.values :
        /\ ColumnOf(name) \in DOMAIN probe.record
        /\ probe.record[ColumnOf(name)] = probe.values[name]

\* the literal text of a template after its first placeholder
LiteralTail(t) ==
    LET pattern == RegexPattern(t)
    IN  IF ~Contains(pattern, Group) THEN {}
        ELSE {pattern[i] : i \in {j \in DOMAIN pattern :
                                    j > FirstIndexOf(pattern, Group) /\ pattern[j] # Group}}

PlaceholdersSeparated(t) ==
    \A i \in DOMAIN RegexPattern(t) :
        (i > 1 /\ RegexPattern(t)[i] = Group) => RegexPattern(t)[i - 1] # Group

DistinctColumns(t) ==
    \A a, b \in Range(FindPlaceholders(t)) : ColumnOf(a) = ColumnOf(b) => a = b

C9_OrderIndependent ==
    pc = "write_to_csv" =>
        \A st \in ScanFrom(ScanStarts, ReferenceOrder(graph)) :
            /\ Range(st.columns) = Range(columns)
            /\ DOMAIN st.records = DOMAIN data
            /\ \A s \in DOMAIN data : \A c \in Range(columns) :
                  Backfill(st).records[s][c] = data[s][c]

\* the quad a step of the scan processes
ScannedQuad == CHOOSE x \in pending : x \notin pending'

ScanStep == pc = "scan" /\ pending' # pending

\* the entry of subject s's record under column k, "" when it has none
Entry(recs, s, k) == IF HasKey(recs, s, k) THEN recs[s][k] ELSE <<>>

\* C11: when the predicate local name of a quad with a literal object is in
\* the Datatype Map, the record's <predicateShort>_datatype column is set to
\* the local name of the literal's datatype if it carries one, and otherwise
\* to the datatype name the mapping declares for the predicate.
C11_DatatypeObservedElseDeclared ==
    [][(ScanStep /\ ScannedQuad.o.kind = "Literal"
          /\ PredicateShort(ScannedQuad.p.value) \in DOMAIN datatype_map)
       => LET q == ScannedQuad
              predicate_short == PredicateShort(q.p.value)
          IN  Entry(records', SubjectId(q.s), predicate_short \o <<"_datatype">>)
                = IF q.o.datatype # <<>>
                  THEN AfterLast(q.o.datatype, "#")
                  ELSE datatype_map[predicate_short]]_vars

\* the parts of a value between runs of whitespace
WhitespaceParts(value) == SelectSeq(Split(value, " "), LAMBDA part : part # <<>>)

\* C12: when the quad's predicate has an object template with placeholders
\* p1..pn, the object value is split on whitespace into parts v1..vm, every
\* placeholder is a column afterwards, column pi of the record is set to vi
\* for i <= min(n, m) and keeps the value it had before the quad for i > m;
\* parts beyond n are ignored.
C12_SplitAssignsPositionally ==
    [][(ScanStep /\ ObjectTemplateResults(ScannedQuad.p.value) # {})
       => LET q == ScannedQuad
              s == SubjectId(q.s)
              parts == WhitespaceParts(ObjectValue(q.o))
          IN  \E template \in ObjectTemplateResults(q.p.value) :
                LET placeholders == FindPlaceholders(template)
                IN  \A i \in DOMAIN placeholders :
                      /\ In(placeholders[i], columns')
                      /\ Entry(records', s, placeholders[i])
                            = IF i <= Len(parts) THEN parts[i]
                              ELSE Entry(records, s, placeholders[i])]_vars

\* C12 amended: the object value is split at every single space character,
\* so that two adjacent spaces give an empty part; every placeholder is a
\* column afterwards, column pi of the record is set to part vi for
\* i <= min(n, m), is not assigned by the split for i > m, and parts beyond n
\* are ignored.
C12_SplitAtEachSpace ==
    [][(ScanStep /\ ObjectTemplateResults(ScannedQuad.p.value) # {})
       => LET q == ScannedQuad
              s == SubjectId(q.s)
              parts == Split(ObjectValue(q.o), " ")
          IN  \E template \in ObjectTemplateResults(q.p.value) :
                LET placeholders == FindPlaceholders(template)
                IN  \A i \in DOMAIN placeholders :
                      /\ In(placeholders[i], columns')
                      /\ Entry(records', s, placeholders[i])
                            = IF i <= Len(parts) THEN parts[i]
                              ELSE Entry(records, s, placeholders[i])]_vars

\* C12 witness: the scan has processed, for one subject, a templated quad
\* whose value has two parts and then one whose value has a single part; the
\* second placeholder still holds the part of the first quad.
C12_Witness ==
    /\ pc = "scan" /\ pending = {}
    /\ \E q1, q2 \in graph :
          /\ q1.s = q2.s /\ q1.p = q2.p
          /\ ObjectTemplateResults(q1.p.value) = {T_Object}
          /\ Split(ObjectValue(q1.o), " ") = <<<<"a">>, <<"b">>>>
          /\ Split(ObjectValue(q2.o), " ") = <<<<"x">>>>
          /\ Entry(records, SubjectId(q1.s), <<"f">>) = <<"x">>
          /\ Entry(records, SubjectId(q1.s), <<"N">>) = <<"b">>

\* C13: when the quad's predicate has an object template, processing the
\* quad does not set the record's plain <predicateShort> column to the
\* unsplit object value.
C13_SplitReplacesWholeValue ==
    [][(ScanStep /\ ObjectTemplateResults(ScannedQuad.p.value) # {})
       => LET q == ScannedQuad
              s == SubjectId(q.s)
              predicate_short == PredicateShort(q.p.value)
          IN  Entry(records', s, predicate_short) = ObjectValue(q.o)
                => Entry(records, s, predicate_short) = ObjectValue(q.o)]_vars

\* C14: after extract_data finishes, in every record whose subject is a URI
\* that matches the subject template, each subject-template placeholder
\* column holds the percent-decoded value bound from the subject URI.
C14_SubjectPlaceholdersBound ==
    Extracted =>
        \A s \in DOMAIN data :
            LET match == ReMatch(RegexPattern(subject_template), s)
                placeholders == FindPlaceholders(subject_template)
            IN  (~StartsWith(s, "_:blank_") /\ match.ok)
                  => \A i \in DOMAIN placeholders :
                        Entry(data, s, ColumnOf(placeholders[i])) = unquote(match.groups[i])

\* C15: the value written to the record's <predicateShort>_datatype column
\* while a quad is processed depends only on the quad's object and the
\* Datatype Map: the datatype name of a literal object, and the datatype name
\* the mapping declares when the object is a URI or a blank node, whatever
\* quads were processed earlier.
C15_DatatypeFromThisQuadOnly ==
    [][(ScanStep /\ PredicateShort(ScannedQuad.p.value) \in DOMAIN datatype_map)
       => LET q == ScannedQuad
              predicate_short == PredicateShort(q.p.value)
          IN  Entry(records', SubjectId(q.s), predicate_short \o <<"_datatype">>)
                = IF q.o.kind = "Literal"
                  THEN LiteralDatatypeName(q.o)
                  ELSE datatype_map[predicate_short]]_vars

====
